---- MODULE Spec2Model ----
(***************************************************************************)
(* Invitation-and-role reconciliation of the workspace administration      *)
(* application: the invitation issuer (POST /api/invitations/create), the  *)
(* acceptance and registration pages, the confirm-email route, the login   *)
(* page and the AuthContext login sweep, over the relational store         *)
(* (workspace_invitations, workspace_members), the identity provider and   *)
(* the browser's localStorage.  Every await of a handler is one step, so   *)
(* requests interleave exactly where the code can be suspended.            *)
(***************************************************************************)
EXTENDS Bags, FiniteSets, Integers, Sequences, TLC

\* ------------------------------------------------------------------------
\* Bounds of the model
\* ------------------------------------------------------------------------
\* number of issue requests started in one behaviour
MaxIssue == 2
\* number of store / provider / mail calls that fail in one behaviour
MaxFaults == 1
\* number of browser and admin operations started in one behaviour
MaxOps == 3
\* number of operations of one invitation followed from issue to login
MaxFlowOps == 5
\* number of groups of an id (the parts between the hyphens; a UUID has five)
MaxGroups == 2

\* ------------------------------------------------------------------------
\* Values
\* ------------------------------------------------------------------------
NULL == "null"
Workspaces == {"w1", "w2"}
Emails == {"e1", "e2"}
Roles == {"admin", "member"}
Statuses == {"pending", "accepted", "cancelled", "expired"}

\* identities of the invitees, one per email (auth.users)
Users == {"u1", "u2"}
EmailOf(u) == IF u = "u1" THEN "e1" ELSE "e2"
UserOf(e) == IF e = "e1" THEN "u1" ELSE "u2"

\* the staff: a global superadmin, the admin of workspace w1
Superadmin == "sa"
AdminW1 == "a1"
\* the hard-coded inviter of the no-session branch
mockUser == "b2587e5a"

\* a member of workspace w1 without the admin role
MemberW1 == "m1"

IssueSlots == {"A", "B"}
RouteSlots == {"cb", "login"}
SweepSlots == {"signIn", "auth"}

VARIABLES
    invitations,    \* workspace_invitations: set of rows
    members,        \* workspace_members: bag of rows (the table has no id column)
    authUsers,      \* identity provider: user id -> "none" | "unconfirmed" | "confirmed"
    mails,          \* invitation mails delivered: set of deep links
    localStorage,   \* the browser's localStorage: key -> value or NULL
    url,            \* the page the browser shows and its query parameters
    session,        \* the user signed in on the browser (supabase client session)
    user,           \* AuthProvider's React state `user` as of the last render
    issue,          \* POST /api/invitations/create requests in flight, one per slot
    route,          \* POST /api/auth/confirm-email requests in flight, one per slot
    sweep,          \* processPendingInvitations calls in flight, one per call site
    login,          \* LoginPage.onFinish
    accept,         \* AcceptInvitation.onFinish
    register,       \* RegisterPage.handleSubmit
    issued,         \* number of issue requests started
    ops,            \* number of browser and admin operations still to be started
    faults,         \* number of external calls that may still fail
    listedMembers   \* MembersContext: the members listed for the current workspace

store == <<invitations, members, authUsers, mails>>
browser == <<localStorage, url, session, user>>
procs == <<issue, route, sweep, login, accept, register>>
vars == <<invitations, members, authUsers, mails, localStorage, url, session, user,
          issue, route, sweep, login, accept, register, issued, ops, faults,
          listedMembers>>

\* ------------------------------------------------------------------------
\* The relational store
\* ------------------------------------------------------------------------
\* outcomes of one external call: TRUE = it succeeds, FALSE = it returns an error
\* (a call can fail while the budget of failures is not used up)
Outcomes == IF faults > 0 THEN {TRUE, FALSE} ELSE {TRUE}
Fault(ok) == faults' = IF ok THEN faults ELSE faults - 1

\* .from('workspace_invitations').select().eq('workspace_id').eq('email')
InvitationsFor(tbl, ws, email) ==
    {r \in tbl : r.workspace_id = ws /\ r.email = email}

\* .single(): the row when exactly one row matches, otherwise no data
\* (an optional row is the set of at most one row)
Single(rows) == IF Cardinality(rows) = 1 THEN rows ELSE {}

\* uniqueness of (workspace_id, email) enforced by the table
NoKeyConflict(tbl, ws, email) == FALSE
InvitationKeyConflict(tbl, ws, email) == InvitationsFor(tbl, ws, email) # {}

\* a fresh row id (gen_random_uuid): distinct from every id in the table
NewInvitationId(tbl, ws, email) ==
    <<ws, email, Cardinality(InvitationsFor(tbl, ws, email))>>

NewInvitation(tbl, ws, email, role, by) ==
    [id |-> NewInvitationId(tbl, ws, email), workspace_id |-> ws, email |-> email,
     role |-> role, status |-> "pending", invited_by |-> by, accepted_at |-> NULL]

\* .update({role, status: 'pending', invited_by}).eq('workspace_id').eq('email')
UpdateInvitationKeepRole(tbl, ws, email, role, by) ==
    {IF r.workspace_id = ws /\ r.email = email
        THEN [r EXCEPT !.status = "pending", !.invited_by = by]
        ELSE r : r \in tbl}
UpdateInvitationKeepStatus(tbl, ws, email, role, by) ==
    {IF r.workspace_id = ws /\ r.email = email
        THEN [r EXCEPT !.role = role, !.invited_by = by]
        ELSE r : r \in tbl}
UpdateInvitation(tbl, ws, email, role, by) ==
    {IF r.workspace_id = ws /\ r.email = email
        THEN [r EXCEPT !.role = role, !.status = "pending", !.invited_by = by]
        ELSE r : r \in tbl}

\* .from('workspace_members').select().eq('workspace_id').eq('user_id')
MemberRows(bag, ws, uid) ==
    {m \in BagToSet(bag) : m.workspace_id = ws /\ m.user_id = uid}
MemberCount(bag, ws, uid) ==
    LET rows == MemberRows(bag, ws, uid)
        RECURSIVE Sum(_)
        Sum(S) == IF S = {} THEN 0
                  ELSE LET m == CHOOSE x \in S : TRUE
                       IN  CopiesIn(m, bag) + Sum(S \ {m})
    IN  Sum(rows)
\* .single() on workspace_members
SingleMember(bag, ws, uid) ==
    IF MemberCount(bag, ws, uid) = 1 THEN MemberRows(bag, ws, uid) ELSE {}

\* user_roles.role of a user (assigned out of band, read-only here)
GlobalRole(u) == IF u = Superadmin THEN "superadmin" ELSE "user"

\* ------------------------------------------------------------------------
\* MembersContext: listing and removing the members of a workspace
\* ------------------------------------------------------------------------
\* An id is written as the sequence of its groups, the parts between its
\* hyphens (a UUID has five): joining two ids with '-' concatenates their
\* groups, and split('-') gives the groups back.
Groups == {"a", "b"}
Ids == UNION {[1..n -> Groups] : n \in 1..MaxGroups}

NoMembersListed ==
    [currentWorkspace |-> <<>>, members |-> {}, asked |-> <<>>, success |-> FALSE]

\* composite_id: `${member.workspace_id}-${member.user_id}`
composite_id(member) == member.workspace_id \o member.user_id

\* fetchMembers: the rows of the current workspace, each with its composite_id
fetchMembers(ws) ==
    /\ listedMembers' =
          [currentWorkspace |-> ws,
           members |-> {[composite_id |-> composite_id(m), user_id |-> m.user_id,
                         role |-> m.role] :
                           m \in {x \in BagToSet(members) : x.workspace_id = ws}},
           asked |-> <<>>,
           success |-> FALSE]
    /\ UNCHANGED <<store, browser, procs, issued, ops, faults>>

\* const [workspace_id, user_id] = compositeId.split('-'): the first two
\* groups of the composite id
SplitCompositeId(compositeId) ==
    [workspace_id |-> <<compositeId[1]>>,
     user_id |-> IF Len(compositeId) >= 2 THEN <<compositeId[2]>> ELSE <<>>]

\* removeMember: the rows of (workspace_id, user_id) are deleted and the
\* member leaves the list; when the delete is answered with an error, the
\* list is kept and the failure is returned
removeMember(compositeId) ==
    \E ok \in BOOLEAN :
        LET key == SplitCompositeId(compositeId)
            deleted == {m \in BagToSet(members) :
                          m.workspace_id = key.workspace_id /\ m.user_id = key.user_id}
        IN  /\ members' = IF ok THEN SetToBag(BagToSet(members) \ deleted) ELSE members
            /\ listedMembers' =
                  [listedMembers EXCEPT
                      !.members = IF ok THEN {m \in @ : m.composite_id # compositeId} ELSE @,
                      !.asked = compositeId,
                      !.success = ok]
            /\ UNCHANGED <<invitations, authUsers, mails, browser, procs, issued, ops, faults>>

\* ------------------------------------------------------------------------
\* POST /api/invitations/create
\* ------------------------------------------------------------------------
IdleIssue ==
    [pc |-> "idle", caller |-> NULL, email |-> NULL, workspaceId |-> NULL,
     role |-> NULL, userId |-> NULL, bypass |-> FALSE, isSuperadmin |-> FALSE,
     existingUser |-> FALSE, existingInvitation |-> {}, writeError |-> NULL,
     status |-> 0]

\* the callers that can hold a session: the staff and every confirmed identity
CanHoldSession(c) ==
    c \in {Superadmin, AdminW1, MemberW1} \/ (c \in Users /\ authUsers[c] = "confirmed")

\* role || 'member'
RoleOrMember(role) == IF role = NULL THEN "member" ELSE role

\* the callers of the route: no session, the superadmin, the admin and a member of w1
Callers == {NULL, Superadmin, AdminW1, MemberW1}
\* the request bodies: the inviting pages always send a role; a body may lack a field
\* (one email invited to the workspace of the admin and to another workspace)
InvitedPairs == {<<"e1", "w1">>, <<"e1", "w2">>}
IssueBodies ==
    {<<p[1], p[2], r>> : p \in InvitedPairs, r \in Roles}
    \cup {<<NULL, "w1", "member">>, <<"e1", NULL, "member">>}

\* request.json() and the required-field check
\* (slot B is the request that overlaps the request of slot A)
IssuePOST(s, caller, email, ws, role) ==
    /\ issue[s].pc = "idle"
    /\ s = "B" => issue["A"].pc # "idle"
    /\ issued < MaxIssue
    /\ caller = NULL \/ CanHoldSession(caller)
    /\ issued' = issued + 1
    /\ issue' = [issue EXCEPT ![s] =
            [IdleIssue EXCEPT !.caller = caller, !.email = email,
                              !.workspaceId = ws, !.role = role,
                              !.pc = IF email = NULL \/ ws = NULL THEN "done" ELSE "session",
                              !.status = IF email = NULL \/ ws = NULL THEN 400 ELSE 0]]
    /\ UNCHANGED <<listedMembers, invitations, members, authUsers, mails, faults, browser,
                   route, sweep, login, accept, register, ops>>

\* supabase.auth.getSession(): without a session the handler carries on as mockUser
IssueGetSession(s) ==
    /\ issue[s].pc = "session"
    /\ \E ok \in Outcomes :
        /\ Fault(ok)
        /\ issue' = [issue EXCEPT ![s] =
                IF ok /\ issue[s].caller # NULL
                    THEN [@ EXCEPT !.pc = "role", !.userId = issue[s].caller]
                    ELSE [@ EXCEPT !.pc = "exists", !.userId = mockUser, !.bypass = TRUE]]
    /\ UNCHANGED <<listedMembers, invitations, members, authUsers, mails, issued, browser,
                   route, sweep, login, accept, register, ops>>

\* user_roles lookup
IssueCheckRole(s) ==
    /\ issue[s].pc = "role"
    /\ \E ok \in Outcomes :
        /\ Fault(ok)
        /\ LET super == ok /\ GlobalRole(issue[s].userId) = "superadmin"
           IN  issue' = [issue EXCEPT ![s] =
                    [@ EXCEPT !.isSuperadmin = super,
                              !.pc = IF super THEN "exists" ELSE "membership"]]
    /\ UNCHANGED <<listedMembers, invitations, members, authUsers, mails, issued, browser,
                   route, sweep, login, accept, register, ops>>

\* the membership a non-superadmin inviter must hold
MayInviteAnyWorkspace(bag, ws, uid) ==
    \E m \in BagToSet(bag) : m.user_id = uid /\ m.role \in {"admin", "owner"}
MayInvite(bag, ws, uid) ==
    LET membership == SingleMember(bag, ws, uid)
    IN  \E m \in membership : m.role \in {"admin", "owner"}

IssueCheckMembership(s) ==
    /\ issue[s].pc = "membership"
    /\ \E ok \in Outcomes :
        /\ Fault(ok)
        /\ issue' = [issue EXCEPT ![s] =
                IF ok /\ MayInvite(members, issue[s].workspaceId, issue[s].userId)
                    THEN [@ EXCEPT !.pc = "exists"]
                    ELSE [@ EXCEPT !.pc = "done", !.status = 403]]
    /\ UNCHANGED <<listedMembers, invitations, members, authUsers, mails, issued, browser,
                   route, sweep, login, accept, register, ops>>

\* !!existingUser of rpc check_user_exists: an error leaves the data empty
ExistsOnError(ok, state) == ~ok \/ state # "none"
check_user_exists(ok, state) == ok /\ state # "none"

IssueCheckUserExists(s) ==
    /\ issue[s].pc = "exists"
    /\ \E ok \in Outcomes :
        /\ Fault(ok)
        /\ issue' = [issue EXCEPT ![s] =
                [@ EXCEPT !.pc = "lookup",
                          !.existingUser =
                              check_user_exists(ok, authUsers[UserOf(issue[s].email)])]]
    /\ UNCHANGED <<listedMembers, invitations, members, authUsers, mails, issued, browser,
                   route, sweep, login, accept, register, ops>>

\* the lookup of an existing invitation for (workspace_id, email)
IssueLookup(s) ==
    /\ issue[s].pc = "lookup"
    /\ \E ok \in Outcomes :
        /\ Fault(ok)
        /\ issue' = [issue EXCEPT ![s] =
                [@ EXCEPT !.pc = "write",
                          !.existingInvitation =
                              IF ok THEN Single(InvitationsFor(invitations, issue[s].workspaceId,
                                                               issue[s].email))
                                    ELSE {}]]
    /\ UNCHANGED <<listedMembers, invitations, members, authUsers, mails, issued, browser,
                   route, sweep, login, accept, register, ops>>

\* the insert of a new row: the table rejects a second row of the same key
InsertInvitation(tbl, ws, email, role, by) ==
    IF InvitationKeyConflict(tbl, ws, email)
        THEN [error |-> "duplicate", table |-> tbl]
        ELSE [error |-> "none", table |-> tbl \cup {NewInvitation(tbl, ws, email, role, by)}]

\* update of the existing row, or insert of a new one
IssueWrite(s) ==
    LET r == issue[s]
        role == RoleOrMember(r.role)
    IN
    /\ r.pc = "write"
    /\ \E ok \in Outcomes :
        /\ Fault(ok)
        /\ IF r.existingInvitation # {}
              THEN \* an update error is logged and the mail is sent all the same
                   /\ invitations' = IF ok THEN UpdateInvitation(invitations, r.workspaceId,
                                                                 r.email, role, r.userId)
                                           ELSE invitations
                   /\ issue' = [issue EXCEPT ![s] =
                            [@ EXCEPT !.pc = "mail",
                                      !.writeError = IF ok THEN "none" ELSE "error"]]
              ELSE LET res == InsertInvitation(invitations, r.workspaceId, r.email, role, r.userId)
                   IN  IF ~ok
                          THEN \* any error other than a duplicate key ends the request
                               /\ invitations' = invitations
                               /\ issue' = [issue EXCEPT ![s] =
                                        [@ EXCEPT !.pc = "done", !.status = 500,
                                                  !.writeError = "error"]]
                          ELSE /\ invitations' = res.table
                               /\ issue' = [issue EXCEPT ![s] =
                                        [@ EXCEPT !.pc = "mail", !.writeError = res.error]]
    /\ UNCHANGED <<listedMembers, members, authUsers, mails, issued, browser, route, sweep,
                   login, accept, register, ops>>

\* the deep link of the invitation mail
targetLink(email, ws, role, existingUser) ==
    [email |-> email, workspace_id |-> ws, invite_role |-> RoleOrMember(role),
     existingUser |-> existingUser]

\* workspace_invitations after the mail request: the handler returns without
\* touching the table, whether the mail was sent or not
RolledBack(tbl, ws, email, ok) ==
    IF ok THEN tbl ELSE tbl \ InvitationsFor(tbl, ws, email)
LedgerAfterMail(tbl, ws, email, ok) == tbl

\* the status of the response: that of the mail request (emailResponse.ok)
AlwaysSuccess(ok) == 200
emailResponseStatus(ok) == IF ok THEN 200 ELSE 500

\* fetch /api/send-invitation-email and the response of the request
IssueSendMail(s) ==
    LET r == issue[s] IN
    /\ r.pc = "mail"
    /\ \E ok \in Outcomes :
        /\ Fault(ok)
        /\ mails' = IF ok THEN mails \cup {targetLink(r.email, r.workspaceId, r.role, r.existingUser)}
                          ELSE mails
        /\ invitations' = LedgerAfterMail(invitations, r.workspaceId, r.email, ok)
        /\ issue' = [issue EXCEPT ![s] =
                [@ EXCEPT !.pc = "done", !.status = emailResponseStatus(ok)]]
    /\ UNCHANGED <<listedMembers, members, authUsers, issued, browser, route, sweep, login,
                   accept, register, ops>>

\* the response reaches the page that sent the request
IssueReturn(s) ==
    /\ issue[s].pc = "done"
    /\ issue' = [issue EXCEPT ![s] = IdleIssue]
    /\ UNCHANGED <<listedMembers, invitations, members, authUsers, mails, issued, faults,
                   browser, route, sweep, login, accept, register, ops>>

\* ------------------------------------------------------------------------
\* Cancelling an invitation (members page and WorkspaceContext)
\* ------------------------------------------------------------------------
\* .update({status}).eq('id', invitationId)
SetStatusById(tbl, id, status) ==
    {IF r.id = id THEN [r EXCEPT !.status = status] ELSE r : r \in tbl}

\* members page: the row becomes 'cancelled'
handleCancelInvitation(id) ==
    /\ \E r \in invitations : r.id = id
    /\ ops > 0
    /\ ops' = ops - 1
    /\ \E ok \in Outcomes :
        /\ Fault(ok)
        /\ invitations' = IF ok THEN SetStatusById(invitations, id, "cancelled") ELSE invitations
    /\ UNCHANGED <<listedMembers, members, authUsers, mails, browser, procs, issued>>

\* WorkspaceContext: the row becomes 'expired'
cancelInvitation(id) ==
    /\ \E r \in invitations : r.id = id
    /\ ops > 0
    /\ ops' = ops - 1
    /\ \E ok \in Outcomes :
        /\ Fault(ok)
        /\ invitations' = IF ok THEN SetStatusById(invitations, id, "expired") ELSE invitations
    /\ UNCHANGED <<listedMembers, members, authUsers, mails, browser, procs, issued>>

\* ------------------------------------------------------------------------
\* Membership insert and invitation acceptance, shared by all reconcilers
\* ------------------------------------------------------------------------
\* primary key (workspace_id, user_id) of workspace_members
MemberKeyConflict(bag, ws, u) == MemberCount(bag, ws, u) > 0

\* .from('workspace_members').insert([{workspace_id, user_id, role}])
InsertMember(bag, ws, u, role) ==
    IF MemberKeyConflict(bag, ws, u)
        THEN [error |-> "duplicate", table |-> bag]
        ELSE [error |-> "none",
              table |-> bag (+) SetToBag({[workspace_id |-> ws, user_id |-> u, role |-> role]})]

\* .update({status: 'accepted', accepted_at}).eq('workspace_id').eq('email')
MarkAccepted(tbl, ws, email) ==
    {IF r.workspace_id = ws /\ r.email = email
        THEN [r EXCEPT !.status = "accepted", !.accepted_at = "now"]
        ELSE r : r \in tbl}

\* ------------------------------------------------------------------------
\* POST /api/auth/confirm-email
\* ------------------------------------------------------------------------
IdleRoute ==
    [pc |-> "idle", email |-> NULL, userId |-> NULL, inviteData |-> {},
     status |-> 0, error |-> NULL]

\* request.json() and the required-field check
StartRoute(email, userId) ==
    [IdleRoute EXCEPT !.email = email, !.userId = userId,
                      !.pc = IF email = NULL \/ userId = NULL THEN "done" ELSE "getUser",
                      !.status = IF email = NULL \/ userId = NULL THEN 400 ELSE 0,
                      !.error = IF email = NULL \/ userId = NULL
                                   THEN "Missing required fields" ELSE NULL]

\* the confirmation callback: the route is called directly with {email, userId}
RoutePOST(email, userId) ==
    /\ route["cb"].pc = "idle"
    /\ ops > 0
    /\ ops' = ops - 1
    /\ route' = [route EXCEPT !["cb"] = StartRoute(email, userId)]
    /\ UNCHANGED <<listedMembers, store, browser, issue, sweep, login, accept, register,
                   issued, faults>>

\* userData.user.email_confirmed_at
AlwaysConfirmed(state) == TRUE
email_confirmed_at(state) == state = "confirmed"

\* auth.admin.getUserById and the confirmed-email check
RouteGetUser(k) ==
    LET r == route[k] IN
    /\ r.pc = "getUser"
    /\ \E ok \in Outcomes :
        /\ Fault(ok)
        /\ route' = [route EXCEPT ![k] =
             IF ~ok
                THEN [@ EXCEPT !.pc = "done", !.status = 500, !.error = "Failed to get user"]
             ELSE IF authUsers[r.userId] = "none"
                THEN [@ EXCEPT !.pc = "done", !.status = 404, !.error = "User not found"]
             ELSE IF ~email_confirmed_at(authUsers[r.userId])
                THEN [@ EXCEPT !.pc = "done", !.status = 400, !.error = "Email not confirmed yet"]
             ELSE [@ EXCEPT !.pc = "lookup"]]
    /\ UNCHANGED <<listedMembers, store, browser, issue, sweep, login, accept, register,
                   issued, ops>>

\* .select('workspace_id, role').eq('email', email).eq('status', 'pending')
AnyInvitationsOf(tbl, email) == {r \in tbl : r.email = email}
PendingInvitationsOf(tbl, email) ==
    {r \in tbl : r.email = email /\ r.status = "pending"}

RouteLookup(k) ==
    LET r == route[k] IN
    /\ r.pc = "lookup"
    /\ \E ok \in Outcomes :
        /\ Fault(ok)
        /\ LET inviteData == IF ok THEN Single(PendingInvitationsOf(invitations, r.email)) ELSE {}
           IN  route' = [route EXCEPT ![k] =
                 IF inviteData = {}
                    THEN [@ EXCEPT !.pc = "done", !.status = 404,
                                   !.error = "No pending invitation found"]
                    ELSE [@ EXCEPT !.pc = "insert", !.inviteData = inviteData]]
    /\ UNCHANGED <<listedMembers, store, browser, issue, sweep, login, accept, register,
                   issued, ops>>

\* insert of the membership; any error ends the request with status 500
RouteInsertMember(k) ==
    LET r == route[k] IN
    /\ r.pc = "insert"
    /\ \E ok \in Outcomes, d \in r.inviteData :
        /\ Fault(ok)
        /\ LET res == InsertMember(members, d.workspace_id, r.userId, RoleOrMember(d.role))
           IN  IF ok /\ res.error = "none"
                  THEN /\ members' = res.table
                       /\ route' = [route EXCEPT ![k] = [@ EXCEPT !.pc = "update"]]
                  ELSE /\ members' = members
                       /\ route' = [route EXCEPT ![k] =
                              [@ EXCEPT !.pc = "done", !.status = 500,
                                        !.error = "Failed to add user to workspace"]]
    /\ UNCHANGED <<listedMembers, invitations, authUsers, mails, browser, issue, sweep, login,
                   accept,
                   register, issued, ops>>

\* the invitation becomes 'accepted'; an error of the update is only logged
RouteUpdateInvitation(k) ==
    LET r == route[k] IN
    /\ r.pc = "update"
    /\ \E ok \in Outcomes, d \in r.inviteData :
        /\ Fault(ok)
        /\ invitations' = IF ok THEN MarkAccepted(invitations, d.workspace_id, r.email)
                                ELSE invitations
        /\ route' = [route EXCEPT ![k] = [@ EXCEPT !.pc = "done", !.status = 200]]
    /\ UNCHANGED <<listedMembers, members, authUsers, mails, browser, issue, sweep, login, accept,
                   register, issued, ops>>

\* the response of a directly called request is delivered: the caller holds
\* its status and error until it calls again
RouteReturn ==
    /\ route["cb"].pc = "done"
    /\ route' = [route EXCEPT !["cb"] = [IdleRoute EXCEPT !.status = route["cb"].status,
                                                          !.error = route["cb"].error]]
    /\ UNCHANGED <<listedMembers, store, browser, issue, sweep, login, accept, register,
                   issued, ops, faults>>

\* ------------------------------------------------------------------------
\* The browser: localStorage, pages and the identity provider
\* ------------------------------------------------------------------------
EmptyStorage ==
    [process_pending_invitation |-> NULL,
     pending_workspace_id |-> NULL, pending_invite_role |-> NULL,
     pending_invitation_email |-> NULL, pending_invitation_workspace_id |-> NULL,
     pending_invitation_role |-> NULL,
     pending_confirmation_user_id |-> NULL, pending_confirmation_workspace_id |-> NULL,
     pending_confirmation_email |-> NULL]

\* a || b
Or(a, b) == IF a # NULL THEN a ELSE b

Page(page, email, ws, role, invitation) ==
    [page |-> page, email |-> email, workspace_id |-> ws, invite_role |-> role,
     invitation |-> invitation]
Dashboard == Page("dashboard", NULL, NULL, NULL, FALSE)
PlainLogin == Page("login", NULL, NULL, NULL, FALSE)

\* the URLs a user opens: the deep link of a mail (possibly edited), the
\* registration page, the login page with or without invitation parameters
Urls ==
    {Page(p, e, w, r, FALSE) : p \in {"accept", "register"}, e \in Emails,
                               w \in Workspaces, r \in Roles}
    \cup {Page("login", NULL, w, r, TRUE) : w \in Workspaces, r \in Roles \cup {NULL}}
    \cup {PlainLogin, Dashboard}

\* the URLs an invitee is led to: the deep link of a delivered mail, its
\* parameters on the registration and login pages (the role as mailed or
\* edited), the plain login page
LinkedUrls ==
    {Page(p, m.email, m.workspace_id, r, FALSE) :
        p \in {"accept", "register"}, m \in mails, r \in Roles}
    \cup {Page("login", NULL, m.workspace_id, r, TRUE) : m \in mails, r \in Roles \cup {NULL}}
    \cup {PlainLogin}

\* the deep links as mailed, and the plain login page
MailedUrls ==
    {Page("accept", m.email, m.workspace_id, m.invite_role, FALSE) : m \in mails}
    \cup {PlainLogin}

\* removeItem of the five invitation flags (AuthContext)
ClearInvitationFlags(ls) ==
    [ls EXCEPT !.process_pending_invitation = NULL,
               !.pending_workspace_id = NULL, !.pending_invitation_workspace_id = NULL,
               !.pending_invite_role = NULL, !.pending_invitation_role = NULL]

\* removeItem of the invitation flags and of the confirmation data (LoginPage)
ClearAllFlags(ls) ==
    [ClearInvitationFlags(ls) EXCEPT !.pending_confirmation_user_id = NULL,
                                     !.pending_confirmation_email = NULL,
                                     !.pending_confirmation_workspace_id = NULL]

\* invitation parameters of the URL are copied into localStorage
\* (LoginPage useEffect and processPendingInvitations)
StoreUrlInvitation(ls, u) ==
    IF u.invitation /\ u.workspace_id # NULL
        THEN [ls EXCEPT !.process_pending_invitation = "true",
                        !.pending_workspace_id = u.workspace_id,
                        !.pending_invite_role = Or(u.invite_role, ls.pending_invite_role)]
        ELSE ls

\* RegisterPage useEffect: the invitation data of the URL is stored
StoreRegistration(ls, u) ==
    [ls EXCEPT !.pending_invitation_email = Or(u.email, @),
               !.pending_invitation_workspace_id = Or(u.workspace_id, @),
               !.pending_invitation_role = Or(u.invite_role, @),
               !.process_pending_invitation = "true"]

IdleSweep ==
    [pc |-> "idle", userId |-> NULL, userEmail |-> NULL, workspaceId |-> NULL,
     inviteRole |-> NULL, result |-> FALSE]
\* processPendingInvitations(userId) is called; userEmail is user?.email of its closure
StartSweep(userId, userEmail) ==
    [IdleSweep EXCEPT !.pc = "start", !.userId = userId, !.userEmail = userEmail]

\* an auth event with a session starts the sweep of the listener registered at
\* mount, whose closure holds the `user` of the first render (null)
AuthSweepStarted(u) ==
    [sweep EXCEPT !["auth"] = IF @.pc = "idle" THEN StartSweep(u, NULL) ELSE @]

NoBrowserHandler ==
    /\ login.pc = "idle" /\ accept.pc = "idle" /\ register.pc = "idle"
    /\ \A k \in SweepSlots : sweep[k].pc = "idle"

\* the user opens a URL: the page mounts, AuthProvider initialises
OpenPage(u) ==
    /\ NoBrowserHandler
    /\ ops > 0
    /\ ops' = ops - 1
    /\ url' = u
    /\ localStorage' = IF u.page = "login" THEN StoreUrlInvitation(localStorage, u)
                       ELSE IF u.page = "register" THEN StoreRegistration(localStorage, u)
                       ELSE localStorage
    /\ user' = session
    /\ sweep' = IF session # NULL THEN AuthSweepStarted(session) ELSE sweep
    /\ UNCHANGED <<listedMembers, store, session, issue, route, login, accept, register,
                   issued, faults>>

\* the words the keys of localStorage are made of: key.includes('invitation')
\* and key.includes('token') hold of a key exactly when it has that word
\* ('invite' and 'confirmation' do not contain 'invitation')
KeyWords ==
    [process_pending_invitation |-> {"process", "pending", "invitation"},
     pending_workspace_id |-> {"pending", "workspace", "id"},
     pending_invite_role |-> {"pending", "invite", "role"},
     pending_invitation_email |-> {"pending", "invitation", "email"},
     pending_invitation_workspace_id |-> {"pending", "invitation", "workspace", "id"},
     pending_invitation_role |-> {"pending", "invitation", "role"},
     pending_confirmation_user_id |-> {"pending", "confirmation", "user", "id"},
     pending_confirmation_workspace_id |-> {"pending", "confirmation", "workspace", "id"},
     pending_confirmation_email |-> {"pending", "confirmation", "email"}]

\* the keys handleRefreshTokenError removes
IsAuthKey(key) == "token" \in KeyWords[key] \/ "invitation" \in KeyWords[key]

\* a refresh-token error (session lookup of initializeAuth, or an auth request
\* answered 400/401): the auth keys are removed, the user is signed out and
\* sent to the login page
handleRefreshTokenError ==
    /\ NoBrowserHandler
    /\ session # NULL
    /\ ops > 0
    /\ ops' = ops - 1
    /\ localStorage' = [key \in DOMAIN localStorage |->
                            IF IsAuthKey(key) THEN NULL ELSE localStorage[key]]
    /\ session' = NULL
    /\ user' = NULL
    /\ url' = PlainLogin
    /\ UNCHANGED <<listedMembers, store, procs, issued, faults>>

\* the invitee follows the confirmation link of the identity provider
ConfirmEmail(u) ==
    /\ authUsers[u] = "unconfirmed"
    /\ authUsers' = [authUsers EXCEPT ![u] = "confirmed"]
    /\ UNCHANGED <<listedMembers, invitations, members, mails, browser, procs, issued, ops, faults>>

\* signInWithPassword succeeds for a confirmed identity and the right password
MaySignIn(state, pwOk) == state = "confirmed" /\ pwOk

\* an auth event with a session (confirmation link opened in this browser,
\* refreshed token) reaches onAuthStateChange
onAuthStateChange(u) ==
    /\ authUsers[u] = "confirmed"
    /\ sweep["auth"].pc = "idle"
    /\ ops > 0
    /\ ops' = ops - 1
    /\ session' = u
    /\ user' = u
    /\ sweep' = AuthSweepStarted(u)
    /\ UNCHANGED <<listedMembers, store, localStorage, url, issue, route, login, accept, register,
                   issued, faults>>

\* ------------------------------------------------------------------------
\* AuthContext.processPendingInvitations
\* ------------------------------------------------------------------------
\* inviteRole = urlInviteRole || 'member'; the later `inviteRole || ...` keeps it
SweepRole(u, ls) == Or(u.invite_role, "member")

\* the flags and URL parameters are read up to the first await
SweepRead(k) ==
    LET shouldProcessInvitation == localStorage.process_pending_invitation = "true"
        ls == StoreUrlInvitation(localStorage, url)
        workspaceId == Or(url.workspace_id,
                          Or(ls.pending_workspace_id, ls.pending_invitation_workspace_id))
    IN
    /\ sweep[k].pc = "start"
    /\ localStorage' = ls
    /\ sweep' = [sweep EXCEPT ![k] =
            IF (~shouldProcessInvitation /\ ~url.invitation) \/ workspaceId = NULL
                THEN [@ EXCEPT !.pc = "done", !.result = FALSE]
                ELSE [@ EXCEPT !.pc = "check", !.workspaceId = workspaceId,
                               !.inviteRole = SweepRole(url, ls)]]
    /\ UNCHANGED <<listedMembers, store, url, session, user, issue, route, login, accept, register,
                   issued, ops, faults>>

\* is the user already a member of the workspace?
SweepCheckMember(k) ==
    LET r == sweep[k] IN
    /\ r.pc = "check"
    /\ \E ok \in Outcomes :
        /\ Fault(ok)
        /\ IF ok /\ SingleMember(members, r.workspaceId, r.userId) # {}
              THEN /\ localStorage' = ClearInvitationFlags(localStorage)
                   /\ sweep' = [sweep EXCEPT ![k] = [@ EXCEPT !.pc = "done", !.result = TRUE]]
              ELSE /\ localStorage' = localStorage
                   /\ sweep' = [sweep EXCEPT ![k] = [@ EXCEPT !.pc = "insert"]]
    /\ UNCHANGED <<listedMembers, store, url, session, user, issue, route, login, accept, register,
                   issued, ops>>

\* insert of the membership with the role of the URL; an error returns false
SweepInsertMember(k) ==
    LET r == sweep[k] IN
    /\ r.pc = "insert"
    /\ \E ok \in Outcomes :
        /\ Fault(ok)
        /\ LET res == InsertMember(members, r.workspaceId, r.userId, r.inviteRole)
           IN  IF ok /\ res.error = "none"
                  THEN /\ members' = res.table
                       /\ sweep' = [sweep EXCEPT ![k] = [@ EXCEPT !.pc = "update"]]
                  ELSE /\ members' = members
                       /\ sweep' = [sweep EXCEPT ![k] =
                              [@ EXCEPT !.pc = "done", !.result = FALSE]]
    /\ UNCHANGED <<listedMembers, invitations, authUsers, mails, browser, issue, route, login,
                   accept,
                   register, issued, ops>>

\* the invitation of (workspaceId, user?.email) becomes 'accepted', the flags are cleared
SweepUpdateInvitation(k) ==
    LET r == sweep[k] IN
    /\ r.pc = "update"
    /\ \E ok \in Outcomes :
        /\ Fault(ok)
        /\ invitations' = IF ok THEN MarkAccepted(invitations, r.workspaceId, r.userEmail)
                                ELSE invitations
    /\ localStorage' = ClearInvitationFlags(localStorage)
    /\ sweep' = [sweep EXCEPT ![k] = [@ EXCEPT !.pc = "done", !.result = TRUE]]
    /\ UNCHANGED <<listedMembers, members, authUsers, mails, url, session, user, issue, route,
                   login,
                   accept, register, issued, ops>>

\* the sweep of the auth listener returns
SweepReturn ==
    /\ sweep["auth"].pc = "done"
    /\ sweep' = [sweep EXCEPT !["auth"] = IdleSweep]
    /\ UNCHANGED <<listedMembers, store, browser, issue, route, login, accept, register,
                   issued, ops, faults>>

\* ------------------------------------------------------------------------
\* AcceptInvitation.onFinish (the page of the deep link)
\* ------------------------------------------------------------------------
IdleAccept ==
    [pc |-> "idle", email |-> NULL, workspaceId |-> NULL, inviteRole |-> NULL,
     error |-> NULL]

\* the form is submitted with the invitation data of the URL
AcceptSubmit ==
    /\ accept.pc = "idle"
    /\ url.page = "accept" /\ url.email # NULL /\ url.workspace_id # NULL
    /\ ops > 0
    /\ ops' = ops - 1
    /\ accept' = [IdleAccept EXCEPT !.pc = "signUp", !.email = url.email,
                                    !.workspaceId = url.workspace_id,
                                    !.inviteRole = Or(url.invite_role, "member")]
    /\ UNCHANGED <<listedMembers, store, browser, issue, route, sweep, login, register, issued,
                   faults>>

\* auth.signUp of a new identity: the provider sends a confirmation mail and
\* holds the identity as unconfirmed, or (mailer_autoconfirm) confirms it at
\* once and signs it in, which the auth listener is told
SignUpStates == {"unconfirmed", "confirmed"}

SignedUp(u, st) ==
    /\ authUsers' = [authUsers EXCEPT ![u] = st]
    /\ IF st = "confirmed"
          THEN session' = u /\ user' = u /\ sweep' = AuthSweepStarted(u)
          ELSE UNCHANGED <<listedMembers, session, user, sweep>>

\* auth.signUp, then the confirmation data is stored
AcceptSignUp ==
    LET u == UserOf(accept.email) IN
    /\ accept.pc = "signUp"
    /\ \E ok \in Outcomes, st \in SignUpStates :
        /\ Fault(ok)
        /\ IF ok /\ authUsers[u] = "none"
              THEN /\ SignedUp(u, st)
                   /\ localStorage' =
                        [localStorage EXCEPT !.pending_confirmation_user_id = u,
                                             !.pending_confirmation_workspace_id = accept.workspaceId,
                                             !.pending_confirmation_email = accept.email]
                   /\ accept' = [accept EXCEPT !.pc = "update"]
              ELSE /\ UNCHANGED <<listedMembers, authUsers, localStorage, session, user, sweep>>
                   /\ accept' = [accept EXCEPT !.pc = "done",
                                     !.error = IF ok THEN "User already registered"
                                                     ELSE "Failed to accept invitation"]
    /\ UNCHANGED <<listedMembers, invitations, members, mails, url, issue, route,
                   login, register, issued, ops>>

\* "Update invitation status in database": the row becomes 'accepted'
AcceptUpdateInvitation ==
    /\ accept.pc = "update"
    /\ \E ok \in Outcomes :
        /\ Fault(ok)
        /\ invitations' = IF ok THEN MarkAccepted(invitations, accept.workspaceId, accept.email)
                                ELSE invitations
    /\ accept' = [accept EXCEPT !.pc = "done"]
    /\ UNCHANGED <<listedMembers, members, authUsers, mails, browser, issue, route, sweep,
                   login, register,
                   issued, ops>>

AcceptReturn ==
    /\ accept.pc = "done"
    /\ accept' = IdleAccept
    /\ UNCHANGED <<listedMembers, store, browser, issue, route, sweep, login, register, issued,
                   ops, faults>>

\* ------------------------------------------------------------------------
\* RegisterPage.handleSubmit
\* ------------------------------------------------------------------------
IdleRegister == [pc |-> "idle", email |-> NULL, error |-> NULL, success |-> FALSE]

RegisterSubmit ==
    /\ register.pc = "idle"
    /\ url.page = "register" /\ url.email # NULL /\ url.workspace_id # NULL
    /\ ops > 0
    /\ ops' = ops - 1
    /\ register' = [IdleRegister EXCEPT !.pc = "signUp", !.email = url.email]
    /\ UNCHANGED <<listedMembers, store, browser, issue, route, sweep, login, accept, issued,
                   faults>>

\* auth.signUp with the invitation as metadata
RegisterSignUp ==
    LET u == UserOf(register.email) IN
    /\ register.pc = "signUp"
    /\ \E ok \in Outcomes, st \in SignUpStates :
        /\ Fault(ok)
        /\ IF ~ok
              THEN /\ UNCHANGED <<listedMembers, authUsers, session, user, sweep>>
                   /\ register' = [register EXCEPT !.pc = "done", !.error = "signUpError"]
              ELSE IF authUsers[u] # "none"
                      THEN /\ UNCHANGED <<listedMembers, authUsers, session, user, sweep>>
                           /\ register' = [register EXCEPT !.pc = "fallback"]
                      ELSE /\ SignedUp(u, st)
                           /\ register' = [register EXCEPT !.pc = "autoSignIn"]
    /\ UNCHANGED <<listedMembers, invitations, members, mails, localStorage, url, issue, route,
                   login,
                   accept, issued, ops>>

\* signInWithPassword, after 'already registered' (any password) or after a
\* successful signUp (the password just chosen)
RegisterSignIn(pwOk) ==
    LET u == UserOf(register.email) IN
    /\ register.pc \in {"fallback", "autoSignIn"}
    /\ register.pc = "autoSignIn" => pwOk
    /\ \E ok \in Outcomes :
        /\ Fault(ok)
        /\ IF ok /\ MaySignIn(authUsers[u], pwOk)
              THEN /\ session' = u
                   /\ user' = u
                   /\ sweep' = AuthSweepStarted(u)
                   /\ register' = [register EXCEPT !.pc = "done", !.success = TRUE]
              ELSE /\ UNCHANGED <<listedMembers, session, user, sweep>>
                   /\ register' = [register EXCEPT
                         !.pc = "done",
                         !.success = (register.pc = "autoSignIn"),
                         !.error = IF register.pc = "fallback"
                                      THEN "This email is already registered"
                                      ELSE "Your account has been created. Please sign in"]
    /\ UNCHANGED <<listedMembers, store, localStorage, url, issue, route, login, accept,
                   issued, ops>>

\* router.push: the dashboard after a sign-in, the login page otherwise
RegisterReturn ==
    /\ register.pc = "done"
    /\ register' = IdleRegister
    /\ url' = IF register.success
                 THEN (IF register.error = NULL THEN Dashboard ELSE PlainLogin)
                 ELSE url
    /\ UNCHANGED <<listedMembers, store, localStorage, session, user, issue, route, sweep,
                   login, accept,
                   issued, ops, faults>>

\* ------------------------------------------------------------------------
\* LoginPage.onFinish
\* ------------------------------------------------------------------------
IdleLogin ==
    [pc |-> "idle", email |-> NULL, pwOk |-> FALSE, userEmail |-> NULL,
     workspaceId |-> NULL, inviteRole |-> NULL,
     pendingConfirmationUserId |-> NULL, pendingConfirmationEmail |-> NULL,
     userId |-> NULL, error |-> NULL]

\* the form is submitted; signIn is the function of the last render of AuthProvider
LoginSubmit(email, pwOk) ==
    /\ login.pc = "idle"
    /\ url.page = "login"
    /\ sweep["signIn"].pc = "idle"
    /\ ops > 0
    /\ ops' = ops - 1
    /\ login' = [IdleLogin EXCEPT !.pc = "signIn", !.email = email, !.pwOk = pwOk,
                                  !.userEmail = IF user = NULL THEN NULL ELSE EmailOf(user)]
    /\ UNCHANGED <<listedMembers, store, browser, issue, route, sweep, accept, register,
                   issued, faults>>

\* AuthContext.signIn: signInWithPassword, then processPendingInvitations
LoginSignIn ==
    LET u == UserOf(login.email) IN
    /\ login.pc = "signIn"
    /\ \E ok \in Outcomes :
        /\ Fault(ok)
        /\ IF ok /\ MaySignIn(authUsers[u], login.pwOk)
              THEN /\ session' = u
                   /\ user' = u
                   /\ sweep' = [AuthSweepStarted(u) EXCEPT
                                    !["signIn"] = StartSweep(u, login.userEmail)]
                   /\ login' = [login EXCEPT !.pc = "sweep"]
              ELSE /\ UNCHANGED <<listedMembers, session, user, sweep>>
                   /\ login' = [login EXCEPT !.pc = "done",
                                             !.error = "Invalid email or password"]
    /\ UNCHANGED <<listedMembers, store, localStorage, url, issue, route, accept, register,
                   issued, ops>>

\* signIn has returned: the flags and the confirmation data are read
LoginReadStorage ==
    LET ls == localStorage
        confirmed == ls.pending_confirmation_email = login.email
                     /\ ls.pending_confirmation_workspace_id # NULL
        shouldProcessInvitation == confirmed \/ ls.process_pending_invitation = "true"
        workspaceId == IF confirmed THEN ls.pending_confirmation_workspace_id
                       ELSE Or(ls.pending_workspace_id, ls.pending_invitation_workspace_id)
        inviteRole == Or(ls.pending_invite_role, Or(ls.pending_invitation_role, "member"))
    IN
    /\ login.pc = "sweep"
    /\ sweep["signIn"].pc = "done"
    /\ sweep' = [sweep EXCEPT !["signIn"] = IdleSweep]
    /\ login' = IF shouldProcessInvitation /\ workspaceId # NULL
                   THEN [login EXCEPT !.pc = "getUser", !.workspaceId = workspaceId,
                               !.inviteRole = inviteRole,
                               !.pendingConfirmationUserId = ls.pending_confirmation_user_id,
                               !.pendingConfirmationEmail = ls.pending_confirmation_email]
                   ELSE [login EXCEPT !.pc = "done"]
    /\ UNCHANGED <<listedMembers, store, browser, issue, route, accept, register, issued, ops,
                   faults>>

\* auth.getUser(); with confirmation data of this email the confirm-email route is called
LoginGetUser ==
    /\ login.pc = "getUser"
    /\ \E ok \in Outcomes :
        /\ Fault(ok)
        /\ IF ~ok \/ session = NULL
              THEN /\ login' = [login EXCEPT !.pc = "done", !.error = "No user found"]
                   /\ route' = route
              ELSE IF login.pendingConfirmationUserId # NULL
                      /\ login.pendingConfirmationEmail = login.email
                      THEN /\ login' = [login EXCEPT !.pc = "awaitRoute", !.userId = session]
                           /\ route' = [route EXCEPT !["login"] = StartRoute(login.email, session)]
                      ELSE /\ login' = [login EXCEPT !.pc = "check", !.userId = session]
                           /\ route' = route
    /\ UNCHANGED <<listedMembers, store, browser, issue, sweep, accept, register, issued, ops>>

\* the response of confirm-email is logged, all flags are cleared
LoginRouteReturned ==
    /\ login.pc = "awaitRoute"
    /\ route["login"].pc = "done"
    /\ route' = [route EXCEPT !["login"] = IdleRoute]
    /\ localStorage' = ClearAllFlags(localStorage)
    /\ login' = [login EXCEPT !.pc = "done"]
    /\ UNCHANGED <<listedMembers, store, url, session, user, issue, sweep, accept, register,
                   issued, ops,
                   faults>>

\* "Regular invitation processing": is the user already a member?
LoginCheckMember ==
    /\ login.pc = "check"
    /\ \E ok \in Outcomes :
        /\ Fault(ok)
        /\ IF ok /\ SingleMember(members, login.workspaceId, login.userId) # {}
              THEN /\ localStorage' = ClearAllFlags(localStorage)
                   /\ login' = [login EXCEPT !.pc = "done"]
              ELSE /\ localStorage' = localStorage
                   /\ login' = [login EXCEPT !.pc = "insert"]
    /\ UNCHANGED <<listedMembers, store, url, session, user, issue, route, sweep, accept, register,
                   issued, ops>>

\* insert of the membership with the role of localStorage
LoginInsertMember ==
    /\ login.pc = "insert"
    /\ \E ok \in Outcomes :
        /\ Fault(ok)
        /\ LET res == InsertMember(members, login.workspaceId, login.userId, login.inviteRole)
           IN  IF ok /\ res.error = "none"
                  THEN /\ members' = res.table
                       /\ localStorage' = localStorage
                       /\ login' = [login EXCEPT !.pc = "update"]
                  ELSE /\ members' = members
                       /\ localStorage' = ClearAllFlags(localStorage)
                       /\ login' = [login EXCEPT !.pc = "done"]
    /\ UNCHANGED <<listedMembers, invitations, authUsers, mails, url, session, user, issue,
                   route, sweep,
                   accept, register, issued, ops>>

\* the invitation of (workspaceId, user.email) becomes 'accepted'
LoginUpdateInvitation ==
    /\ login.pc = "update"
    /\ \E ok \in Outcomes :
        /\ Fault(ok)
        /\ invitations' = IF ok THEN MarkAccepted(invitations, login.workspaceId,
                                                  EmailOf(login.userId))
                                ELSE invitations
    /\ localStorage' = ClearAllFlags(localStorage)
    /\ login' = [login EXCEPT !.pc = "done"]
    /\ UNCHANGED <<listedMembers, members, authUsers, mails, url, session, user, issue, route,
                   sweep,
                   accept, register, issued, ops>>

\* router.push('/dashboard'), unless the sign-in was refused
LoginReturn ==
    /\ login.pc = "done"
    /\ login' = IdleLogin
    /\ url' = IF login.error # "Invalid email or password" THEN Dashboard ELSE url
    /\ UNCHANGED <<listedMembers, store, localStorage, session, user, issue, route, sweep, accept,
                   register, issued, ops, faults>>

\* ------------------------------------------------------------------------
\* Specification
\* ------------------------------------------------------------------------
StaffMembers ==
    SetToBag({[workspace_id |-> "w1", user_id |-> AdminW1, role |-> "admin"],
              [workspace_id |-> "w1", user_id |-> MemberW1, role |-> "member"]})

Init ==
    /\ invitations = {}
    /\ members = StaffMembers
    /\ authUsers = [u \in Users |-> "none"]
    /\ mails = {}
    /\ localStorage = EmptyStorage
    /\ url = Dashboard
    /\ session = NULL
    /\ user = NULL
    /\ issue = [s \in IssueSlots |-> IdleIssue]
    /\ route = [k \in RouteSlots |-> IdleRoute]
    /\ sweep = [k \in SweepSlots |-> IdleSweep]
    /\ login = IdleLogin
    /\ accept = IdleAccept
    /\ register = IdleRegister
    /\ issued = 0
    /\ ops = MaxOps
    /\ faults = MaxFaults
    /\ listedMembers = NoMembersListed

\* the requests of the inviters
IssueNext ==
    \/ \E s \in IssueSlots, c \in Callers, b \in IssueBodies : IssuePOST(s, c, b[1], b[2], b[3])
    \/ \E s \in IssueSlots : IssueGetSession(s)
    \/ \E s \in IssueSlots : IssueCheckRole(s)
    \/ \E s \in IssueSlots : IssueCheckMembership(s)
    \/ \E s \in IssueSlots : IssueCheckUserExists(s)
    \/ \E s \in IssueSlots : IssueLookup(s)
    \/ \E s \in IssueSlots : IssueWrite(s)
    \/ \E s \in IssueSlots : IssueSendMail(s)
    \/ \E s \in IssueSlots : IssueReturn(s)

CancelNext ==
    \/ \E r \in invitations : handleCancelInvitation(r.id)
    \/ \E r \in invitations : cancelInvitation(r.id)

\* the confirm-email route
RouteNext ==
    \/ \E e \in Emails, u \in Users : RoutePOST(e, u)
    \/ \E k \in RouteSlots : RouteGetUser(k)
    \/ \E k \in RouteSlots : RouteLookup(k)
    \/ \E k \in RouteSlots : RouteInsertMember(k)
    \/ \E k \in RouteSlots : RouteUpdateInvitation(k)
    \/ RouteReturn

\* the pages the user opens
PageNext == \E u \in Urls : OpenPage(u)

\* the identity provider and the handlers of the pages
HandlerNext ==
    \/ \E u \in Users : ConfirmEmail(u)
    \/ \E u \in Users : onAuthStateChange(u)
    \/ \E k \in SweepSlots : SweepRead(k)
    \/ \E k \in SweepSlots : SweepCheckMember(k)
    \/ \E k \in SweepSlots : SweepInsertMember(k)
    \/ \E k \in SweepSlots : SweepUpdateInvitation(k)
    \/ SweepReturn
    \/ AcceptSubmit \/ AcceptSignUp \/ AcceptUpdateInvitation \/ AcceptReturn
    \/ RegisterSubmit \/ RegisterSignUp \/ (\E pwOk \in BOOLEAN : RegisterSignIn(pwOk))
    \/ RegisterReturn
    \/ \E e \in Emails, pwOk \in BOOLEAN : LoginSubmit(e, pwOk)
    \/ LoginSignIn \/ LoginReadStorage \/ LoginGetUser \/ LoginRouteReturned
    \/ LoginCheckMember \/ LoginInsertMember \/ LoginUpdateInvitation \/ LoginReturn

BrowserNext == PageNext \/ HandlerNext

Next == IssueNext \/ CancelNext \/ RouteNext \/ BrowserNext

Spec == Init /\ [][Next]_vars

\* the inviters alone: overlapping issue requests
SpecIssue == Init /\ [][IssueNext]_vars

\* the reconcilers alone, from a state the issuer and the acceptance page leave
\* behind: e1 was invited to w1 by the superadmin and the mail was delivered;
\* the identity of e1 does not exist yet, or signed up before (confirmed or
\* not), or has just signed up on the acceptance page of the mail
IssuedByAdmin(role) == {NewInvitation({}, "w1", "e1", role, Superadmin)}

AcceptedOnPage(role) ==
    /\ invitations = MarkAccepted(IssuedByAdmin(role), "w1", "e1")
    /\ authUsers = [u \in Users |-> IF u = "u1" THEN "unconfirmed" ELSE "none"]
    /\ localStorage = [EmptyStorage EXCEPT !.pending_confirmation_user_id = "u1",
                                           !.pending_confirmation_workspace_id = "w1",
                                           !.pending_confirmation_email = "e1"]
    /\ url = Page("accept", "e1", "w1", role, FALSE)

NotYetOpened(role) ==
    /\ invitations = IssuedByAdmin(role)
    /\ authUsers \in {[u \in Users |-> IF u = "u1" THEN st ELSE "none"] :
                        st \in {"none", "unconfirmed", "confirmed"}}
    /\ localStorage = EmptyStorage
    /\ url = Dashboard

InitReconcile ==
    /\ \E role \in Roles :
         /\ mails = {targetLink("e1", "w1", role, FALSE)}
         /\ NotYetOpened(role) \/ AcceptedOnPage(role)
    /\ members = StaffMembers
    /\ session = NULL
    /\ user = NULL
    /\ issue = [s \in IssueSlots |-> IdleIssue]
    /\ route = [k \in RouteSlots |-> IdleRoute]
    /\ sweep = [k \in SweepSlots |-> IdleSweep]
    /\ login = IdleLogin
    /\ accept = IdleAccept
    /\ register = IdleRegister
    /\ issued = 0
    /\ ops = MaxOps
    /\ faults = MaxFaults
    /\ listedMembers = NoMembersListed

ReconcileNext ==
    \/ RouteNext
    \/ \E u \in LinkedUrls : OpenPage(u)
    \/ HandlerNext

SpecReconcile == InitReconcile /\ [][ReconcileNext]_vars

\* the reconcilers on a client whose refresh token may be found invalid
IntentNext == ReconcileNext \/ handleRefreshTokenError

SpecIntent == InitReconcile /\ [][IntentNext]_vars

\* one invitation followed from the issue to the login of the invitee: e1 is
\* invited to w1 by the superadmin or by the admin of w1, the invitee opens
\* the deep link as mailed, signs up, confirms the email and signs in on the
\* login page; the callback may be called and the invitation cancelled
\* between two of these operations; no external call fails
InitFlow ==
    /\ invitations = {}
    /\ members = StaffMembers
    /\ authUsers = [u \in Users |-> "none"]
    /\ mails = {}
    /\ localStorage = EmptyStorage
    /\ url = Dashboard
    /\ session = NULL
    /\ user = NULL
    /\ issue = [s \in IssueSlots |-> IdleIssue]
    /\ route = [k \in RouteSlots |-> IdleRoute]
    /\ sweep = [k \in SweepSlots |-> IdleSweep]
    /\ login = IdleLogin
    /\ accept = IdleAccept
    /\ register = IdleRegister
    /\ issued = 0
    /\ ops = MaxFlowOps
    /\ faults = 0
    /\ listedMembers = NoMembersListed

\* no request and no handler is running
Quiet ==
    /\ \A s \in IssueSlots : issue[s].pc = "idle"
    /\ \A k \in RouteSlots : route[k].pc = "idle"
    /\ NoBrowserHandler

\* the operations of the flow start one after the other
FlowStart ==
    \/ \E c \in {Superadmin, AdminW1}, r \in Roles : IssuePOST("A", c, "e1", "w1", r)
    \/ \E r \in invitations : handleCancelInvitation(r.id)
    \/ \E m \in mails : RoutePOST(m.email, UserOf(m.email))
    \/ \E u \in MailedUrls : OpenPage(u)
    \/ \E u \in Users : ConfirmEmail(u)
    \/ AcceptSubmit
    \/ \E m \in mails, pwOk \in BOOLEAN : LoginSubmit(m.email, pwOk)

FlowNext ==
    \/ Quiet /\ FlowStart
    \/ \E s \in IssueSlots : IssueGetSession(s)
    \/ \E s \in IssueSlots : IssueCheckRole(s)
    \/ \E s \in IssueSlots : IssueCheckMembership(s)
    \/ \E s \in IssueSlots : IssueCheckUserExists(s)
    \/ \E s \in IssueSlots : IssueLookup(s)
    \/ \E s \in IssueSlots : IssueWrite(s)
    \/ \E s \in IssueSlots : IssueSendMail(s)
    \/ \E s \in IssueSlots : IssueReturn(s)
    \/ \E k \in RouteSlots : RouteGetUser(k)
    \/ \E k \in RouteSlots : RouteLookup(k)
    \/ \E k \in RouteSlots : RouteInsertMember(k)
    \/ \E k \in RouteSlots : RouteUpdateInvitation(k)
    \/ RouteReturn
    \/ AcceptSignUp \/ AcceptUpdateInvitation \/ AcceptReturn
    \/ LoginSignIn \/ LoginReadStorage \/ LoginGetUser \/ LoginRouteReturned \/ LoginReturn
    \/ \E k \in SweepSlots : SweepRead(k)
    \/ SweepReturn

SpecFlow == InitFlow /\ [][FlowNext]_vars

\* the inviters, one request after the other, for an invitee who may hold an
\* identity already (unconfirmed or confirmed)
InitResolve ==
    /\ invitations = {}
    /\ members = StaffMembers
    /\ authUsers \in {[u \in Users |-> IF u = "u1" THEN st ELSE "none"] :
                        st \in {"none", "unconfirmed", "confirmed"}}
    /\ mails = {}
    /\ localStorage = EmptyStorage
    /\ url = Dashboard
    /\ session = NULL
    /\ user = NULL
    /\ issue = [s \in IssueSlots |-> IdleIssue]
    /\ route = [k \in RouteSlots |-> IdleRoute]
    /\ sweep = [k \in SweepSlots |-> IdleSweep]
    /\ login = IdleLogin
    /\ accept = IdleAccept
    /\ register = IdleRegister
    /\ issued = 0
    /\ ops = MaxOps
    /\ faults = MaxFaults
    /\ listedMembers = NoMembersListed

ResolveNext ==
    \/ \E c \in Callers, b \in IssueBodies : IssuePOST("A", c, b[1], b[2], b[3])
    \/ IssueGetSession("A")
    \/ IssueCheckRole("A")
    \/ IssueCheckMembership("A")
    \/ IssueCheckUserExists("A")
    \/ IssueLookup("A")
    \/ IssueWrite("A")
    \/ IssueSendMail("A")
    \/ IssueReturn("A")

SpecResolve == InitResolve /\ [][ResolveNext]_vars

\* the inviters, one request after the other, for a pair that was never
\* invited or whose row is in any status (invited by the admin of w1 before)
EarlierInvitations ==
    {{}} \cup
    {{[NewInvitation({}, "w1", "e1", role, AdminW1) EXCEPT
          !.status = st, !.accepted_at = IF st = "accepted" THEN "now" ELSE NULL]} :
        role \in Roles, st \in Statuses}

InitReissue ==
    /\ invitations \in EarlierInvitations
    /\ members = StaffMembers
    /\ authUsers = [u \in Users |-> "none"]
    /\ mails = {}
    /\ localStorage = EmptyStorage
    /\ url = Dashboard
    /\ session = NULL
    /\ user = NULL
    /\ issue = [s \in IssueSlots |-> IdleIssue]
    /\ route = [k \in RouteSlots |-> IdleRoute]
    /\ sweep = [k \in SweepSlots |-> IdleSweep]
    /\ login = IdleLogin
    /\ accept = IdleAccept
    /\ register = IdleRegister
    /\ issued = 0
    /\ ops = MaxOps
    /\ faults = MaxFaults
    /\ listedMembers = NoMembersListed

SpecReissue == InitReissue /\ [][ResolveNext]_vars

\* the reconcilers on a client that a second, registered user shares: e1 was
\* invited to w1 and the mail was delivered; e2 has a confirmed identity and no
\* invitation; the acceptance page of the mail has been submitted on this
\* client or not
InitShared ==
    /\ \E role \in Roles :
         /\ mails = {targetLink("e1", "w1", role, FALSE)}
         /\ \/ /\ invitations = IssuedByAdmin(role)
               /\ authUsers \in {[u \in Users |-> IF u = "u1" THEN st ELSE "confirmed"] :
                                   st \in {"none", "confirmed"}}
               /\ localStorage = EmptyStorage
               /\ url = Dashboard
            \/ /\ invitations = MarkAccepted(IssuedByAdmin(role), "w1", "e1")
               /\ authUsers = [u \in Users |-> IF u = "u1" THEN "unconfirmed" ELSE "confirmed"]
               /\ localStorage = [EmptyStorage EXCEPT !.pending_confirmation_user_id = "u1",
                                                      !.pending_confirmation_workspace_id = "w1",
                                                      !.pending_confirmation_email = "e1"]
               /\ url = Page("accept", "e1", "w1", role, FALSE)
    /\ members = StaffMembers
    /\ session = NULL
    /\ user = NULL
    /\ issue = [s \in IssueSlots |-> IdleIssue]
    /\ route = [k \in RouteSlots |-> IdleRoute]
    /\ sweep = [k \in SweepSlots |-> IdleSweep]
    /\ login = IdleLogin
    /\ accept = IdleAccept
    /\ register = IdleRegister
    /\ issued = 0
    /\ ops = MaxOps
    /\ faults = MaxFaults
    /\ listedMembers = NoMembersListed

SpecShared == InitShared /\ [][ReconcileNext]_vars

\* the confirm-email route while admins cancel invitations: e1 holds a pending
\* invitation to w1, or pending invitations to w1 and to w2; the identity of
\* e1 exists, confirmed or not
PendingInvitations ==
    {IssuedByAdmin(role) : role \in Roles}
    \cup {IssuedByAdmin(role) \cup {NewInvitation({}, "w2", "e1", role, Superadmin)} :
              role \in Roles}

InitRace ==
    /\ invitations \in PendingInvitations
    /\ members = StaffMembers
    /\ authUsers \in {[u \in Users |-> IF u = "u1" THEN st ELSE "none"] :
                        st \in {"unconfirmed", "confirmed"}}
    /\ mails = {}
    /\ localStorage = EmptyStorage
    /\ url = Dashboard
    /\ session = NULL
    /\ user = NULL
    /\ issue = [s \in IssueSlots |-> IdleIssue]
    /\ route = [k \in RouteSlots |-> IdleRoute]
    /\ sweep = [k \in SweepSlots |-> IdleSweep]
    /\ login = IdleLogin
    /\ accept = IdleAccept
    /\ register = IdleRegister
    /\ issued = 0
    /\ ops = MaxOps
    /\ faults = MaxFaults
    /\ listedMembers = NoMembersListed

RaceNext == RouteNext \/ CancelNext

SpecRace == InitRace /\ [][RaceNext]_vars

\* the members page: workspace_members holds no row, one row or two, at most
\* one for a pair (workspace_id, user_id); the admin lists the members of a
\* workspace and removes listed members
ListableRows == [workspace_id : Ids, user_id : Ids, role : {"member"}]
MemberTables == {{}} \cup {{m1, m2} : m1 \in ListableRows, m2 \in ListableRows}

InitRemove ==
    /\ invitations = {}
    /\ members \in {SetToBag(S) : S \in MemberTables}
    /\ authUsers = [u \in Users |-> "none"]
    /\ mails = {}
    /\ localStorage = EmptyStorage
    /\ url = Dashboard
    /\ session = NULL
    /\ user = NULL
    /\ issue = [s \in IssueSlots |-> IdleIssue]
    /\ route = [k \in RouteSlots |-> IdleRoute]
    /\ sweep = [k \in SweepSlots |-> IdleSweep]
    /\ login = IdleLogin
    /\ accept = IdleAccept
    /\ register = IdleRegister
    /\ issued = 0
    /\ ops = MaxOps
    /\ faults = MaxFaults
    /\ listedMembers = NoMembersListed

RemoveNext ==
    \/ \E ws \in Ids : fetchMembers(ws)
    \/ \E m \in listedMembers.members : removeMember(m.composite_id)

SpecRemove == InitRemove /\ [][RemoveNext]_vars

\* ------------------------------------------------------------------------
\* Properties of the issuer
\* ------------------------------------------------------------------------
\* the caller holds the admin (or owner) role in the workspace
AdminIn(ws, uid) ==
    \E m \in BagToSet(members) :
        m.workspace_id = ws /\ m.user_id = uid /\ m.role \in {"admin", "owner"}

\* the request of slot s was sent by a caller with a session who is neither
\* superadmin nor admin of the target workspace
Unauthorized(r) ==
    /\ r.pc \in {"role", "membership"}
    /\ ~r.bypass
    /\ GlobalRole(r.caller) # "superadmin"
    /\ ~AdminIn(r.workspaceId, r.caller)

\* C3: a request of an authenticated caller who is neither superadmin nor admin
\* of the target workspace never passes the authorization checks: each of its
\* steps leaves workspace_invitations and the mails unchanged, and it ends
\* with status 403.
C3_ForbiddenLeavesLedger ==
    [][\A s \in IssueSlots :
         (Unauthorized(issue[s]) /\ issue'[s] # issue[s]) =>
            /\ invitations' = invitations
            /\ mails' = mails
            /\ issue'[s].pc \in {"membership", "done"}
            /\ issue'[s].pc = "done" => issue'[s].status = 403]_vars

\* the admin of w1 invited to w2 and was refused
C3_Witness ==
    \E s \in IssueSlots :
        /\ issue[s].pc = "done" /\ issue[s].status = 403
        /\ issue[s].caller = AdminW1 /\ issue[s].workspaceId = "w2"

\* C4: a request without a valid session is rejected as Forbidden: none of its
\* steps changes workspace_invitations or sends a mail, and it ends with 403.
C4_NoSessionForbidden ==
    [][\A s \in IssueSlots :
         (issue[s].caller = NULL /\ issue[s].pc \notin {"idle", "done"}
            /\ issue'[s] # issue[s]) =>
            /\ invitations' = invitations
            /\ mails' = mails
            /\ issue'[s].pc = "done" => issue'[s].status = 403]_vars

\* C5: when the Ledger write of an issue request succeeds (the update of the row
\* it found, or the insert of a new row), there is exactly one row for its
\* (workspace_id, email), with the requested role and status pending; so the
\* second of two successive calls leaves one row with the second role.
C5_IdempotentIssue ==
    [][\A s \in IssueSlots :
         (issue[s].pc = "write" /\ issue'[s].pc # "write" /\ issue'[s].writeError = "none") =>
            LET rows == InvitationsFor(invitations', issue[s].workspaceId, issue[s].email)
            IN  /\ Cardinality(rows) = 1
                /\ \A r \in rows : r.role = RoleOrMember(issue[s].role)
                                   /\ r.status = "pending"]_vars

\* a second call has replaced the role of the row the first call created
C5_Witness ==
    \E s \in IssueSlots :
        /\ issue[s].pc = "mail" /\ issue[s].writeError = "none"
        /\ \A t \in IssueSlots \ {s} : issue[t].pc = "idle"
        /\ \E old \in issue[s].existingInvitation : old.role # issue[s].role
        /\ \E r \in InvitationsFor(invitations, issue[s].workspaceId, issue[s].email) :
              r.role = issue[s].role /\ r.status = "pending"

C7_NotYetConfirmed ==
    [][\A k \in RouteSlots :
         (route[k].pc = "getUser" /\ authUsers[route[k].userId] = "unconfirmed"
            /\ route'[k] # route[k]) =>
            /\ members' = members
            /\ invitations' = invitations
            /\ route'[k].pc = "done"
            /\ faults' = faults => /\ route'[k].status = 400
                                   /\ route'[k].error = "Email not confirmed yet"]_vars

\* a request for an unconfirmed invitee with a pending invitation was refused
C7_Witness ==
    \E k \in RouteSlots :
        /\ route[k].pc = "done" /\ route[k].error = "Email not confirmed yet"
        /\ authUsers[route[k].userId] = "unconfirmed"
        /\ \E r \in invitations : r.email = route[k].email /\ r.status = "pending"

\* the invitation of email has been reconciled for user uid: the row is
\* accepted, none is pending, and uid is a member of its workspace
AlreadyReconciled(email, uid) ==
    /\ \A r \in invitations : r.email = email => r.status # "pending"
    /\ \E r \in invitations :
          /\ r.email = email /\ r.status = "accepted"
          /\ MemberCount(members, r.workspace_id, uid) = 1

\* C8: workspace_members never holds two rows of one (workspace_id, user_id),
\* and a confirm-email request that looks up the invitation after it has been
\* reconciled for its user ends at the lookup and changes neither table.
C8_IdempotentReconcile ==
    [][/\ \A ws \in Workspaces, u \in Users : MemberCount(members', ws, u) <= 1
       /\ \A k \in RouteSlots :
            (route[k].pc = "lookup" /\ route'[k] # route[k]
               /\ AlreadyReconciled(route[k].email, route[k].userId)) =>
               /\ route'[k].pc = "done"
               /\ members' = members
               /\ invitations' = invitations]_vars

\* a second request for the reconciled invitation found no pending invitation
C8_Witness ==
    /\ route["cb"].pc = "done" /\ route["cb"].error = "No pending invitation found"
    /\ AlreadyReconciled(route["cb"].email, route["cb"].userId)
    /\ \E r \in invitations : r.email = route["cb"].email /\ r.status = "accepted"
                               /\ r.accepted_at # NULL

\* C9: once the login sweep and the confirmation callback of the confirmed
\* invitee u1 have both run for the invitation of e1 to w1 (in either order,
\* interleaved or not, no call failing, the callback past its confirmation
\* check), there is exactly one membership (w1, u1) and the invitation is
\* accepted.
C9_SweepAndCallbackAgree ==
    (/\ \E k \in SweepSlots :
          /\ sweep[k].pc = "done" /\ sweep[k].userId = "u1"
          /\ sweep[k].workspaceId = "w1"
     /\ route["cb"].pc = "done" /\ route["cb"].email = "e1" /\ route["cb"].userId = "u1"
     /\ route["cb"].error \notin {"Missing required fields", "User not found",
                                  "Email not confirmed yet"}
     /\ faults = MaxFaults)
    => /\ MemberCount(members, "w1", "u1") = 1
       /\ \A r \in InvitationsFor(invitations, "w1", "e1") : r.status = "accepted"

\* ------------------------------------------------------------------------
\* Properties of the flow of one invitation
\* ------------------------------------------------------------------------
\* C1: the invitation of e1 to w1 was issued once and not cancelled, the
\* invitee signed up on the acceptance page, a callback before the
\* confirmation was answered 'Email not confirmed yet', the email was
\* confirmed and the invitee signed in on the login page, which called the
\* confirm-email route: then u1 is a member of w1 with the invited role and
\* the invitation is accepted.
C1_FlowCompletes ==
    (/\ issued = 1
     /\ \A r \in invitations : r.status # "cancelled"
     /\ route["cb"].pc = "idle" /\ route["cb"].error = "Email not confirmed yet"
     /\ authUsers["u1"] = "confirmed"
     /\ login.pc = "done" /\ login.error = NULL
     /\ login.userId = "u1" /\ login.pendingConfirmationUserId = "u1")
    => \E r \in InvitationsFor(invitations, "w1", "e1") :
          /\ r.status = "accepted"
          /\ MemberCount(members, "w1", "u1") = 1
          /\ \A m \in MemberRows(members, "w1", "u1") : m.role = r.role

\* C10: while the invitation is cancelled, no step of the invitee (acceptance
\* page, confirmation, login, confirm-email route, sweep) creates a membership
\* or changes the cancelled row.
C10_CancelledStaysCancelled ==
    [][\A r \in invitations :
         (r.status = "cancelled" /\ issue' = issue /\ ops' = ops) =>
            /\ members' = members
            /\ r \in invitations']_vars

\* ------------------------------------------------------------------------
\* Properties of the ledger transitions
\* ------------------------------------------------------------------------
\* C11: a row of workspace_invitations becomes 'accepted' only in a step of
\* the confirm-email route or of a login sweep that has created or found the
\* membership of the invitee; no step of the acceptance page, of the
\* registration page or of the issuer sets a row to 'accepted'.
C11_AcceptedOnlyByReconciler ==
    [][\A r \in invitations' :
         (r.status = "accepted" /\ \A q \in invitations : q.id = r.id => q.status # "accepted") =>
            /\ accept' = accept
            /\ register' = register
            /\ issue' = issue
            /\ MemberCount(members', r.workspace_id, UserOf(r.email)) = 1]_vars

\* ------------------------------------------------------------------------
\* Properties of the issuer: the mail and the identity resolver
\* ------------------------------------------------------------------------
\* C12: a failing mail request does not undo the write of the invitation: the
\* step of the mail request leaves workspace_invitations unchanged, and when
\* the write of this request had succeeded the row of its (workspace_id,
\* email) is still there with status pending (and, when no other request was
\* made, with the requested role), to be found by the lookup of a retry.
C12_MailFailureKeepsLedger ==
    [][\A s \in IssueSlots :
         (issue[s].pc = "mail" /\ issue'[s].pc = "done" /\ faults' < faults) =>
            /\ invitations' = invitations
            /\ issue[s].writeError = "none" =>
                 LET rows == InvitationsFor(invitations', issue[s].workspaceId, issue[s].email)
                 IN  /\ Cardinality(rows) = 1
                     /\ \A r \in rows :
                          /\ r.status = "pending"
                          /\ issued = 1 => r.role = RoleOrMember(issue[s].role)]_vars

\* the mail of the first request failed; the retry has found the row it left
C12_Witness ==
    \E s \in IssueSlots :
        /\ issue[s].pc = "write" /\ issued = 2
        /\ \A t \in IssueSlots \ {s} : issue[t].pc = "idle"
        /\ mails = {} /\ faults = 0
        /\ \E r \in issue[s].existingInvitation : r.status = "pending"

\* C13: a request of an inviter with a session whose write of the invitation
\* succeeded answers with success (status 200), whatever the outcome of the
\* mail request.
C13_SuccessDespiteMailFailure ==
    [][\A s \in IssueSlots :
         (/\ issue[s].pc = "mail" /\ issue'[s].pc = "done"
          /\ ~issue[s].bypass /\ issue[s].writeError = "none") =>
            issue'[s].status = 200]_vars

\* C14: the response of a request of an inviter with a session that reaches
\* the mail request is the result of the mail request: status 200 and the
\* mail delivered when the mail request succeeded, status 500 and no mail
\* when it failed; and no request answers with success at any other step.
C14_ResultIsMailResult ==
    [][\A s \in IssueSlots :
         /\ (issue[s].pc = "mail" /\ issue'[s] # issue[s] /\ ~issue[s].bypass) =>
               /\ issue'[s].pc = "done"
               /\ (faults' = faults) =>
                     /\ issue'[s].status = 200
                     /\ targetLink(issue[s].email, issue[s].workspaceId, issue[s].role,
                                   issue[s].existingUser) \in mails'
               /\ (faults' < faults) =>
                     /\ issue'[s].status = 500
                     /\ mails' = mails
         /\ (issue'[s].status = 200 /\ issue[s].status # 200) => issue[s].pc = "mail"]_vars

\* the invitation of an admin was written and the mail request failed: the
\* response is a failure
C14_Witness ==
    \E s \in IssueSlots :
        /\ issue[s].pc = "done" /\ issue[s].status = 500
        /\ issue[s].caller = AdminW1 /\ ~issue[s].bypass
        /\ issue[s].writeError = "none"
        /\ InvitationsFor(invitations, issue[s].workspaceId, issue[s].email) # {}
        /\ mails = {}

\* C15: the identity resolver never blocks a request: whatever
\* check_user_exists answers, the request goes on to the lookup, the write of
\* the invitation and the mail request (it ends earlier only when the insert
\* itself fails); an error of the check is taken as "no such user", which is
\* what the mail request is told.
C15_ResolverNeverBlocks ==
    [][\A s \in IssueSlots :
         LET r == issue[s] IN
         /\ (r.pc = "exists" /\ issue'[s] # r) =>
               /\ issue'[s].pc = "lookup" /\ issue'[s].status = 0
               /\ issue'[s].existingUser =
                     (faults' = faults /\ authUsers[UserOf(r.email)] # "none")
         /\ (r.pc = "lookup" /\ issue'[s] # r) => issue'[s].pc = "write"
         /\ (r.pc = "write" /\ issue'[s] # r /\ faults' = faults) =>
               /\ issue'[s].pc = "mail"
               /\ InvitationsFor(invitations', r.workspaceId, r.email) # {}
         /\ (r.pc = "mail" /\ issue'[s] # r /\ faults' = faults) =>
               targetLink(r.email, r.workspaceId, r.role, r.existingUser) \in mails']_vars

\* the check failed for an invitee who holds an identity: the invitation was
\* written and mailed as to a new user
C15_Witness ==
    \E s \in IssueSlots :
        /\ issue[s].pc = "done" /\ issue[s].status = 200 /\ ~issue[s].bypass
        /\ authUsers[UserOf(issue[s].email)] = "confirmed"
        /\ ~issue[s].existingUser
        /\ targetLink(issue[s].email, issue[s].workspaceId, issue[s].role, FALSE) \in mails
        /\ InvitationsFor(invitations, issue[s].workspaceId, issue[s].email) # {}

\* ------------------------------------------------------------------------
\* Properties of the registration of an invitee
\* ------------------------------------------------------------------------
\* C16: when the invitee signs up for an email that holds an identity already,
\* the handler (acceptance page or registration page) goes on to sign in with
\* the password supplied; the sign-in creates no identity and, when it
\* succeeds, signs the invitee in; when it fails, the handler reports that
\* the email is already registered.
C16_AlreadyRegisteredSignsIn ==
    [][/\ (/\ accept.pc = "signUp" /\ accept' # accept /\ faults' = faults
           /\ authUsers[UserOf(accept.email)] # "none") =>
             accept'.pc = "fallback"
       /\ (/\ register.pc = "signUp" /\ register' # register /\ faults' = faults
           /\ authUsers[UserOf(register.email)] # "none") =>
             register'.pc = "fallback"
       /\ (register.pc = "fallback" /\ register' # register) =>
             /\ authUsers' = authUsers
             /\ register'.success => session' = UserOf(register.email)
             /\ ~register'.success => register'.error = "This email is already registered"]_vars

\* ------------------------------------------------------------------------
\* Properties of the reconcilers: memberships that exist already
\* ------------------------------------------------------------------------
\* C17: when the confirm-email route has found the pending invitation and the
\* invitee is a member of its workspace already, the insert step adds no row
\* and the request goes on as after a successful insert: it marks the
\* invitation accepted and answers with success.
C17_ExistingMembershipIsSuccess ==
    [][\A k \in RouteSlots :
         LET r == route[k] IN
         /\ (/\ r.pc = "insert" /\ route'[k] # r /\ faults' = faults
             /\ \E d \in r.inviteData : MemberCount(members, d.workspace_id, r.userId) >= 1) =>
               /\ members' = members
               /\ route'[k].pc = "update"
         /\ (r.pc = "update" /\ route'[k] # r /\ faults' = faults) =>
               /\ route'[k].status = 200
               /\ \A d \in r.inviteData :
                    \A i \in InvitationsFor(invitations', d.workspace_id, r.email) :
                       i.status = "accepted"]_vars

\* C18: interleaved reconciliation triggers for one (workspace, user) are
\* harmless: no pair ever holds two rows of workspace_members, and when no
\* external call fails every trigger ends as a success or as a no-op: the
\* confirm-email route never answers 500, and when it answers 200 the
\* invitee holds exactly one membership of the invitation's workspace.
C18_DoubleInvocationHarmless ==
    /\ \A ws \in Workspaces, u \in Users : MemberCount(members, ws, u) <= 1
    /\ \A k \in RouteSlots :
         (route[k].pc = "done" /\ faults = MaxFaults) =>
            /\ route[k].status # 500
            /\ route[k].status = 200 =>
                 \A d \in route[k].inviteData :
                    MemberCount(members, d.workspace_id, route[k].userId) = 1

\* C19: marking an invitation accepted touches pending rows only: no step of
\* the confirm-email route, of a sweep, of the login page or of the
\* acceptance page changes a row whose status is cancelled, expired or
\* accepted (the issuer, which sets a row back to pending, and the
\* cancelling admin apart).
C19_MarkAcceptedOnlyPending ==
    [][\A r \in invitations :
         (r.status # "pending" /\ issue' = issue /\ ops' = ops) => r \in invitations']_vars

\* ------------------------------------------------------------------------
\* Properties of failing writes
\* ------------------------------------------------------------------------
\* C20: a failing primary write ends the operation with a failure and no
\* later step: when the insert or the update of the invitation fails, the
\* issuer answers 500 and sends no mail; when the insert of the membership
\* fails, the confirm-email route answers 500, the sweep returns false and
\* the login page reports an error, and none of them marks an invitation
\* accepted.
C20_WriteFailurePropagates ==
    [][/\ \A s \in IssueSlots :
            (issue[s].pc = "write" /\ issue'[s] # issue[s] /\ faults' < faults) =>
               /\ issue'[s].pc = "done" /\ issue'[s].status = 500
               /\ invitations' = invitations
       /\ \A k \in RouteSlots :
            (route[k].pc = "insert" /\ route'[k] # route[k] /\ members' = members) =>
               /\ route'[k].pc = "done" /\ route'[k].status = 500
               /\ invitations' = invitations
       /\ \A k \in SweepSlots :
            (sweep[k].pc = "insert" /\ sweep'[k] # sweep[k] /\ members' = members) =>
               /\ sweep'[k].pc = "done" /\ ~sweep'[k].result
               /\ invitations' = invitations
       /\ (login.pc = "insert" /\ login' # login /\ members' = members) =>
               /\ login'.pc = "done" /\ login'.error # NULL
               /\ invitations' = invitations]_vars

\* ------------------------------------------------------------------------
\* Properties of the invitation data carried in localStorage
\* ------------------------------------------------------------------------
\* C21: when a run of the login sweep completes (processPendingInvitations or
\* the invitation processing of the login page: membership inserted, user a
\* member already, or nothing to process), localStorage holds none of the
\* invitation keys any more.
C21_SweepClearsMarkers ==
    [][/\ \A k \in SweepSlots :
            (sweep[k].pc \in {"start", "check", "update"} /\ sweep'[k].pc = "done") =>
               localStorage' = EmptyStorage
       /\ (login.pc \in {"sweep", "awaitRoute", "check", "update"} /\ login'.pc = "done") =>
               localStorage' = EmptyStorage]_vars

\* C22: the invitation data stored for (email, workspace) at the submission of
\* the acceptance form (pending_confirmation_*) or of the registration form
\* (pending_invitation_*) stays in localStorage as long as the invitee holds
\* no membership of that workspace: no step (a login whose reconcile attempt
\* is refused or fails, a refresh-token error) removes it before.
C22_IntentSurvives ==
    [][LET ls == localStorage IN
       /\ (/\ ls.pending_confirmation_email # NULL
           /\ ls.pending_confirmation_workspace_id # NULL
           /\ MemberCount(members', ls.pending_confirmation_workspace_id,
                          UserOf(ls.pending_confirmation_email)) = 0) =>
             /\ localStorage'.pending_confirmation_email = ls.pending_confirmation_email
             /\ localStorage'.pending_confirmation_workspace_id =
                   ls.pending_confirmation_workspace_id
             /\ localStorage'.pending_confirmation_user_id = ls.pending_confirmation_user_id
       /\ (/\ ls.pending_invitation_email # NULL
           /\ ls.pending_invitation_workspace_id # NULL
           /\ authUsers[UserOf(ls.pending_invitation_email)] # "none"
           /\ MemberCount(members', ls.pending_invitation_workspace_id,
                          UserOf(ls.pending_invitation_email)) = 0) =>
             /\ localStorage'.pending_invitation_email = ls.pending_invitation_email
             /\ localStorage'.pending_invitation_workspace_id =
                   ls.pending_invitation_workspace_id]_vars

\* ------------------------------------------------------------------------
\* Properties of the issuer: re-issue and the deep link
\* ------------------------------------------------------------------------
\* C23: when the write of an issue request succeeds, a row that existed for
\* its (workspace_id, email) in whatever status is kept (same id, no second
\* row) and carries the requested role, status pending and the caller as
\* invited_by; when no row existed exactly one such row is inserted; the rows
\* of other pairs are untouched.
C23_UpsertOnReissue ==
    [][\A s \in IssueSlots :
         (issue[s].pc = "write" /\ issue'[s].pc = "mail" /\ issue'[s].writeError = "none") =>
            LET old == InvitationsFor(invitations, issue[s].workspaceId, issue[s].email)
                new == InvitationsFor(invitations', issue[s].workspaceId, issue[s].email)
            IN  /\ Cardinality(new) = 1
                /\ \A r \in new : /\ r.role = RoleOrMember(issue[s].role)
                                  /\ r.status = "pending"
                                  /\ r.invited_by = issue[s].userId
                /\ old # {} => {r.id : r \in new} = {r.id : r \in old}
                /\ invitations' \ new = invitations \ old]_vars

\* the superadmin has re-issued a cancelled (expired, accepted) invitation
\* with another role: the row is the same, pending again, with the new role
C23_Witness ==
    \E s \in IssueSlots :
        /\ issue[s].pc = "mail" /\ issue[s].writeError = "none"
        /\ issue[s].caller = Superadmin
        /\ \E old \in issue[s].existingInvitation :
              /\ old.status # "pending" /\ old.role # issue[s].role
              /\ old.invited_by = AdminW1
              /\ \E r \in invitations :
                    /\ r.id = old.id /\ r.status = "pending"
                    /\ r.role = issue[s].role /\ r.invited_by = Superadmin

\* ------------------------------------------------------------------------
\* Properties of the members list
\* ------------------------------------------------------------------------
\* the row of workspace_members a listed member was built from
RowOf(ws, listed) == [workspace_id |-> ws, user_id |-> listed.user_id, role |-> listed.role]

\* C24: removeMember, called with the composite_id that fetchMembers built
\* for a membership row whose ids have several groups (as a UUID has), and
\* returning success, deletes exactly that row of workspace_members and no
\* other.
C24_RemoveDeletesExactlyThatRow ==
    [][\A listed \in listedMembers.members :
          (/\ Len(listedMembers.currentWorkspace) > 1
           /\ Len(listed.user_id) > 1
           /\ listedMembers.asked = <<>>
           /\ listedMembers'.asked = listed.composite_id
           /\ listedMembers'.success) =>
              members' = SetToBag(BagToSet(members)
                                    \ {RowOf(listedMembers.currentWorkspace, listed)})]_vars

\* ------------------------------------------------------------------------
\* Properties of the memberships the reconcilers create
\* ------------------------------------------------------------------------
\* the rows of workspace_members this step inserts
InsertedMembers == BagToSet(members') \ BagToSet(members)

\* this step is an insert of the client (processPendingInvitations or
\* LoginPage.onFinish), not of the confirm-email route
ClientInsert ==
    \/ \E k \in SweepSlots : sweep[k].pc = "insert" /\ sweep'[k].pc = "update"
    \/ login.pc = "insert" /\ login'.pc = "update"

\* C25: every membership a reconciliation path inserts has the role of the
\* ledger row of (workspace_id, email of the user) at the time of the insert.
C25_RoleFidelity ==
    [][\A m \in InsertedMembers :
          \E r \in InvitationsFor(invitations, m.workspace_id, EmailOf(m.user_id)) :
              r.role = m.role]_vars

\* C26: processPendingInvitations and LoginPage.onFinish insert a membership
\* (W, user) only in states where a ledger row (W, email of the user) with
\* status pending exists.
C26_SweepBackedByInvitation ==
    [][ClientInsert =>
          \A m \in InsertedMembers :
              \E r \in InvitationsFor(invitations, m.workspace_id, EmailOf(m.user_id)) :
                  r.status = "pending"]_vars

\* the emails and the workspaces the intent carried in localStorage names
IntentEmails ==
    {localStorage.pending_invitation_email, localStorage.pending_confirmation_email} \ {NULL}
IntentWorkspaces ==
    {localStorage.pending_workspace_id, localStorage.pending_invitation_workspace_id,
     localStorage.pending_confirmation_workspace_id} \ {NULL}

\* C27: when the intent carried in localStorage was stored for email e, the
\* client inserts no membership in the workspace of the intent for a user
\* whose email is not e.
C27_IntentBoundToEmail ==
    [][ClientInsert =>
          \A m \in InsertedMembers :
              m.workspace_id \in IntentWorkspaces =>
                  \A e \in IntentEmails : EmailOf(m.user_id) = e]_vars

\* ------------------------------------------------------------------------
\* Properties of the confirm-email route beside cancels and other invitations
\* ------------------------------------------------------------------------
\* C28: once an invitation (W, e) is cancelled (status cancelled or expired)
\* and not issued again, no membership (W, user of e) is inserted and the row
\* does not become accepted, also when the route had read the row as pending
\* before the cancel was written.
C28_CancelledIsFinal ==
    [][\A r \in invitations :
          r.status \in {"cancelled", "expired"} =>
              /\ \A m \in InsertedMembers :
                    ~(m.workspace_id = r.workspace_id /\ m.user_id = UserOf(r.email))
              /\ \A r2 \in invitations' : r2.id = r.id => r2.status # "accepted"]_vars

\* C29: when the email of a confirmed user has pending rows in two or more
\* workspaces, the lookup of the confirm-email route, answered without error,
\* finds an invitation to reconcile and does not report that there is none.
C29_SeveralPendingReconciled ==
    [][\A k \in RouteSlots :
          (/\ route[k].pc = "lookup"
           /\ route'[k].pc # "lookup"
           /\ faults' = faults
           /\ Cardinality(PendingInvitationsOf(invitations, route[k].email)) >= 2) =>
              /\ route'[k].pc = "insert"
              /\ route'[k].error # "No pending invitation found"]_vars

\* ------------------------------------------------------------------------
\* Properties of the invitation mail
\* ------------------------------------------------------------------------
\* C30: whenever a request sends the invitation mail, workspace_invitations
\* holds a pending row of the link's (workspace_id, email) whose role is the
\* link's invite_role, and the write of the request to the table has not
\* failed.
C30_LinkAgreesWithLedger ==
    [][\A s \in IssueSlots :
          (issue[s].pc = "mail" /\ issue'[s].pc = "done" /\ faults' = faults) =>
              LET link == targetLink(issue[s].email, issue[s].workspaceId, issue[s].role,
                                     issue[s].existingUser)
              IN  /\ link \in mails'
                  /\ issue[s].writeError = "none"
                  /\ \E r \in InvitationsFor(invitations, link.workspace_id, link.email) :
                        r.status = "pending" /\ r.role = link.invite_role]_vars
====
